---------------------------- MODULE Spec2Model ----------------------------
(***************************************************************************)
(* Model of mqtt-to-pocsag.py: the relay of Meshtastic text messages,      *)
(* received over MQTT, to the DAPNET paging gateway.                       *)
(*                                                                         *)
(* The model follows the thread of the MQTT client that runs the on_message*)
(* callback: on_message -> decode_encrypted -> send_to_dapnet_pocsag, all  *)
(* called synchronously on that thread, and the part of main() that lets   *)
(* the thread start (validate_config).                                     *)
(***************************************************************************)
EXTENDS Integers, Sequences, FiniteSets, TLC

(***************************************************************************)
(* Bounds of the model.                                                    *)
(***************************************************************************)
MaxRetries == 3      \* MAX_RETRIES is drawn from 0..MaxRetries
MaxDelay == 2        \* RETRY_DELAY is drawn from 0..MaxDelay
MaxMessages == 2     \* inbound MQTT messages delivered in one run

(***************************************************************************)
(* Constants of the program and of the libraries it imports.               *)
(***************************************************************************)
\* A fixed32 field of a packet (id, from, to) as two 16-bit halves: the
\* value is hi * 65536 + lo.
U32(hi, lo) == [hi |-> hi, lo |-> lo]
\* n // d and n % d, for d a divisor of 65536
Div(n, d) == [hi |-> n.hi \div d, lo |-> (n.hi % d) * (65536 \div d) + n.lo \div d]
Mod(n, d) == n.lo % d
IsSmall(n, d) == n.hi = 0 /\ n.lo < d

BROADCAST_NUM == U32(65535, 65535)   \* meshtastic.BROADCAST_NUM, 0xFFFFFFFF
TEXT_MESSAGE_APP == "TEXT_MESSAGE_APP"
PortNums ==
    {"UNKNOWN_APP", TEXT_MESSAGE_APP, "POSITION_APP", "NODEINFO_APP", "TELEMETRY_APP"}
HTTP_OK == 200                       \* the status compared at line 327

(***************************************************************************)
(* Python's exception classes that the pipeline can raise, each with the   *)
(* set of its base classes (itself included).                              *)
(***************************************************************************)
Bases(exc) ==
    CASE exc = "Timeout" -> {"Timeout", "RequestException", "OSError", "Exception"}
      [] exc = "ConnectionError" ->
             {"ConnectionError", "RequestException", "OSError", "Exception"}
      [] exc = "TooManyRedirects" ->
             {"TooManyRedirects", "RequestException", "OSError", "Exception"}
      [] exc = "RuntimeError" -> {"RuntimeError", "Exception"}
      [] exc = "ValueError" -> {"ValueError", "Exception"}
      [] exc = "UnicodeDecodeError" ->
             {"UnicodeDecodeError", "UnicodeError", "ValueError", "Exception"}
      [] exc = "DecodeError" -> {"DecodeError", "Error", "Exception"}
      [] exc = "OSError" -> {"OSError", "Exception"}
      [] exc = "KeyboardInterrupt" -> {"KeyboardInterrupt", "BaseException"}

\* faulty variant of Catches: a clause that matches the named class only
CatchesExactClass(clause, exc) == clause = exc

\* `except clause:` catches an exception of class exc
Catches(clause, exc) == clause \in Bases(exc)

\* The first of the except clauses of one try statement that catches exc,
\* 0 when none does.
RECURSIVE FirstClause(_, _, _)
FirstClause(clauses, exc, i) ==
    IF i > Len(clauses) THEN 0
    ELSE IF Catches(clauses[i], exc) THEN i
    ELSE FirstClause(clauses, exc, i + 1)

\* The innermost of the enclosing try statements (frames, innermost first)
\* that catches exc, 0 when the exception leaves them all.
RECURSIVE Unwind(_, _, _)
Unwind(frames, exc, i) ==
    IF i > Len(frames) THEN 0
    ELSE IF FirstClause(frames[i], exc, 1) > 0 THEN i
    ELSE Unwind(frames, exc, i + 1)

\* the except clauses of the try statements of the pipeline
SendClauses == <<"Timeout", "ConnectionError", "RequestException", "Exception">>
TextClauses == <<"UnicodeDecodeError", "Exception">>
DecodeClauses == <<"Exception">>
ParseClauses == <<"Exception">>
OnMessageClauses == <<"Exception">>
\* on_connect: the try statement around the whole callback
ConnectClauses == <<"Exception">>
\* connect_mqtt_with_retry: the try statement around one attempt
ConnectRetryClauses == <<"Exception">>
\* main_loop: the try statement in the while loop, the one around the
\* function's body, and the one of main()
LoopBodyClauses == <<"KeyboardInterrupt", "Exception">>
MainLoopClauses == <<"Exception">>
MainClauses == <<"KeyboardInterrupt", "Exception">>
\* cleanup_resources: the try statement around mqtt_client.disconnect() and
\* the one around the function's body
CleanupMqttClauses == <<"Exception">>
CleanupClauses == <<"Exception">>

(***************************************************************************)
(* Pure functions of the program.                                          *)
(***************************************************************************)
\* faulty variant of to_bytes: big-endian byte order
RECURSIVE to_bytes_big(_, _)
to_bytes_big(n, length) ==
    IF length = 0 THEN <<>>
    ELSE Append(to_bytes_big(Div(n, 256), length - 1), Mod(n, 256))

\* int.to_bytes(length, "little"); the packet fields are fixed32, so the
\* OverflowError of a value that does not fit in 8 bytes cannot happen
RECURSIVE to_bytes(_, _)
to_bytes(n, length) ==
    IF length = 0 THEN <<>>
    ELSE <<Mod(n, 256)>> \o to_bytes(Div(n, 256), length - 1)

\* the nonce of decode_encrypted
Nonce(packet) == to_bytes(packet.id, 8) \o to_bytes(packet.from, 8)

HexDigit(d) ==
    <<"0", "1", "2", "3", "4", "5", "6", "7",
      "8", "9", "a", "b", "c", "d", "e", "f">>[d + 1]

\* hex(n)[2:] for n >= 0
RECURSIVE HexDigits(_)
HexDigits(n) ==
    IF IsSmall(n, 16) THEN <<HexDigit(Mod(n, 16))>>
    ELSE Append(HexDigits(Div(n, 16)), HexDigit(Mod(n, 16)))

\* Python's None where a node number is expected
None == [hi |-> -1, lo |-> -1]

\* faulty variant of create_node_id: the "0x" of hex() is kept
create_node_id_with_prefix(node_number) ==
    IF node_number = None
    THEN <<"!", "u", "n", "k", "n", "o", "w", "n">>
    ELSE <<"!", "0", "x">> \o HexDigits(node_number)

\* create_node_id(node_number), for None or an integer >= 0 (an integer
\* always has a hex(), so the "!error" of the except clause is not returned)
create_node_id(node_number) ==
    IF node_number = None
    THEN <<"!", "u", "n", "k", "n", "o", "w", "n">>
    ELSE <<"!">> \o HexDigits(node_number)

\* bytes.decode("utf-8"): the code points of the text, or a failure
\* (UnicodeDecodeError)
IsCont(b) == b >= 128 /\ b <= 191
RECURSIVE Utf8Decode(_)
Utf8Decode(b) ==
    IF Len(b) = 0 THEN [ok |-> TRUE, text |-> <<>>]
    ELSE
      LET b1 == b[1]
          n == IF b1 < 128 THEN 1
               ELSE IF b1 >= 194 /\ b1 <= 223 THEN 2
               ELSE IF b1 >= 224 /\ b1 <= 239 THEN 3
               ELSE IF b1 >= 240 /\ b1 <= 244 THEN 4
               ELSE 0
          wellFormed ==
              /\ n > 0
              /\ Len(b) >= n
              /\ \A i \in 2..n : IsCont(b[i])
              /\ (b1 = 224 => b[2] >= 160)
              /\ (b1 = 237 => b[2] <= 159)
              /\ (b1 = 240 => b[2] >= 144)
              /\ (b1 = 244 => b[2] <= 143)
          cp == CASE n = 1 -> b1
                  [] n = 2 -> (b1 - 192) * 64 + (b[2] - 128)
                  [] n = 3 -> (b1 - 224) * 4096 + (b[2] - 128) * 64 + (b[3] - 128)
                  [] n = 4 -> (b1 - 240) * 262144 + (b[2] - 128) * 4096
                                + (b[3] - 128) * 64 + (b[4] - 128)
                  [] OTHER -> 0
      IN IF ~wellFormed THEN [ok |-> FALSE, text |-> <<>>]
         ELSE LET rest == Utf8Decode(SubSeq(b, n + 1, Len(b)))
              IN IF rest.ok THEN [ok |-> TRUE, text |-> <<cp>> \o rest.text]
                 ELSE [ok |-> FALSE, text |-> <<>>]

\* the key lengths algorithms.AES accepts, in bytes
AESKeyOk(key_len) == key_len \in {16, 24, 32}


(***************************************************************************)
(* Inputs: the configuration read from the environment and the messages    *)
(* the broker can deliver.                                                 *)
(***************************************************************************)
\* length in bytes of the decoded ENCRYPTION_KEY; 0 stands for a key that
\* is not set
KeyLens == {0, 1, 16}

Configs ==
    [max_retries : 0..MaxRetries, retry_delay : 0..MaxDelay, key_len : KeyLens,
     root_topic : {"msh/MY_919/2/e/"}, channel : {"LongFast"}]

\* values of ROOT_TOPIC and CHANNEL, and the configurations the connection
\* callback is run with
RootTopics == {"msh/MY_919/2/e/", "msh/"}
Channels == {"LongFast", "Test"}
ConnectConfigs ==
    [max_retries : {MaxRetries}, retry_delay : {1}, key_len : {16},
     root_topic : RootTopics, channel : Channels]

\* (packet id, sender node id) pairs, both fixed32 fields
IdFromSamples ==
    {<<U32(0, 0), U32(0, 1)>>,                  \* 0, 1
     <<U32(4660, 22136), U32(43981, 61185)>>,   \* 0x12345678, 0xABCDEF01
     <<U32(0, 256), U32(1, 0)>>,                \* 0x00000100, 0x00010000
     <<U32(65535, 65535), U32(65535, 65535)>>}  \* 0xFFFFFFFF, 0xFFFFFFFF

Destinations == {BROADCAST_NUM, U32(43981, 61185)}

\* bodies of a text payload: the empty text, "Hi", "a_b", U+00E9, U+20AC,
\* and byte strings that are not UTF-8 (a lone 0xFF, a truncated two-byte
\* sequence, an overlong encoding, an encoded surrogate)
TextBodies ==
    {<<>>, <<72, 105>>, <<97, 95, 98>>, <<195, 169>>, <<226, 130, 172>>,
     <<255>>, <<72, 195>>, <<192, 128>>, <<237, 160, 128>>}
OtherBody == <<8, 1>>
\* a User message: long_name "B" (field 2), short_name "b" (field 3)
NodeInfoBody == <<18, 1, 66, 26, 1, 98>>
\* Position messages: latitude_i (field 1, sfixed32) unset, that is 0, and
\* latitude_i = 1
PositionBodies == {<<>>, <<13, 1, 0, 0, 0>>}

\* what decrypting the encrypted field under the channel key and the
\* packet's nonce and parsing it as mesh_pb2.Data gives: a parse failure or
\* a port number and a payload
NoData == [wellformed |-> FALSE, portnum |-> "UNKNOWN_APP", payload |-> <<>>]
Plains ==
    {NoData}
    \cup {[wellformed |-> TRUE, portnum |-> TEXT_MESSAGE_APP, payload |-> b] :
              b \in TextBodies}
    \cup {[wellformed |-> TRUE, portnum |-> p, payload |-> OtherBody] :
              p \in {"UNKNOWN_APP", "TELEMETRY_APP"}}
    \cup {[wellformed |-> TRUE, portnum |-> "NODEINFO_APP", payload |-> NodeInfoBody]}
    \cup {[wellformed |-> TRUE, portnum |-> "POSITION_APP", payload |-> b] :
              b \in PositionBodies}

\* (packet id, sender node id, decrypted data) of the sampled packets: every
\* kind of data from one sender, one text from every sender, and node info
\* and positions from the sender the table has a row for
BasePair == <<U32(4660, 22136), U32(43981, 61185)>>
PacketSamples ==
    {<<BasePair[1], BasePair[2], d>> : d \in Plains}
    \cup {<<x[1], x[2],
            [wellformed |-> TRUE, portnum |-> TEXT_MESSAGE_APP,
             payload |-> <<72, 105>>]>> : x \in IdFromSamples}
    \cup {<<U32(0, 0), U32(0, 1), d>> :
              d \in {e \in Plains : e.portnum \in {"NODEINFO_APP", "POSITION_APP"}}}

\* An inbound MQTT message.  parsed: the payload parses as a
\* ServiceEnvelope.  variant: the member of the packet's oneof
\* payload_variant that is set.  encrypted: the bytes of that field ("" when
\* empty).
NoMessage ==
    [parsed |-> FALSE, to |-> U32(0, 0), id |-> U32(0, 0), from |-> U32(0, 0),
     variant |-> "none",
     encrypted |-> "", plain |-> NoData]

Messages ==
    {NoMessage}
    \cup {[parsed |-> TRUE, to |-> t, id |-> U32(0, 0), from |-> U32(0, 1),
           variant |-> v,
           encrypted |-> "", plain |-> NoData] :
              t \in Destinations, v \in {"none", "decoded", "encrypted"}}
    \cup {[parsed |-> TRUE, to |-> t, id |-> x[1], from |-> x[2],
           variant |-> "encrypted", encrypted |-> "ciphertext", plain |-> x[3]] :
              t \in Destinations, x \in PacketSamples}

\* responses of the gateway to one POST, and the exceptions requests.post
\* can raise instead
StatusCodes == {HTTP_OK, 204, 500}
PostExceptions == {"Timeout", "ConnectionError", "TooManyRedirects", "RuntimeError"}

\* The rows of the table setup_database creates if it does not exist: the
\* database file is kept between runs, so rows may be there at start.
DirectoryRow(client_id, long_name, short_name) ==
    [client_id |-> client_id, long_name |-> long_name, short_name |-> short_name,
     latitude_i |-> "", longitude_i |-> "", precision_bits |-> ""]
\* one row, for sender 1: the other sampled senders are unknown
DirectorySamples ==
    {{DirectoryRow(<<"!", "1">>, "Alpha", "A")}}

\* faulty variant of directory_after_dispatch: every POSITION_APP payload is
\* written to the sender's row, a latitude of 0 included
directory_upsert_any_position(rows, packet) ==
    IF packet.plain.portnum = "POSITION_APP"
    THEN LET key == create_node_id(packet.from)
             lat == IF packet.plain.payload = <<>> THEN "0" ELSE "1"
             old == {row \in rows : row.client_id = key}
         IN (rows \ old)
            \cup {[row EXCEPT !.latitude_i = lat] : row \in old}
            \cup (IF old = {}
                  THEN {[DirectoryRow(key, "", "") EXCEPT !.latitude_i = lat]}
                  ELSE {})
    ELSE rows

\* the table after decode_encrypted has dispatched a decoded packet: no
\* branch of the dispatch executes a statement on the database
directory_after_dispatch(rows, packet) == rows

(***************************************************************************)
(* State.                                                                  *)
(***************************************************************************)
VARIABLES
    phase,          \* main(): "init", "running" (main_loop), "exited"
    CONFIG,         \* the configuration loaded from the environment
    pc,             \* where the MQTT client's thread is
    msgNo,          \* inbound messages delivered to on_message so far
    returned,       \* calls of on_message that returned normally
    escaped,        \* an exception left on_message
    msg,            \* the inbound message being handled, as received
    message_packet, \* service_envelope.packet, as the handlers change it
    nonce,          \* the nonce decode_encrypted built (<<>> before)
    decoded_result, \* return value of decode_encrypted: "none", "True", "False"
    decrypts,       \* calls of decode_encrypted for this message
    forwards,       \* arguments of the calls of send_to_dapnet_pocsag
    attempt,        \* loop variable of send_to_dapnet_pocsag
    responses,      \* per POST of this message: the status, 0 = exception
    sleeps,         \* the time.sleep durations of this message's forward
    send_result,    \* return value of send_to_dapnet_pocsag
    lastFailure,    \* what made the pipeline drop a message most recently
    posted,         \* per POST of this message: the "text" of its JSON body
    shutdown_event, \* the threading.Event set by signal_handler
    directory,      \* the rows of the channel's table in the database
    node_number,    \* argument of the last call of create_node_id
    label,          \* its result (<<>> before the first call)
    subscriptions,  \* per call of on_connect: what it did
    mainpc,         \* where the main thread is
    steps,          \* the startup steps main() has run, with their outcome
    exit_status,    \* the status the process exited with (-1 while it runs)
    mqtt_client,    \* the global: "None" or "Client"
    db_connection,  \* the global: "None" or "Connection"
    conn_caller,    \* who called connect_mqtt_with_retry: "main", "main_loop"
    conn_attempt,   \* its loop variable
    conn_results,   \* per attempt of this call: what mqtt_client.connect did
    conn_sleeps,    \* the time.sleep durations of this call
    conn_result,    \* its return value: "none", "True", "False", "raised"
    loop_end,       \* how main_loop's while loop ended ("none" before)
    cleanups,       \* calls of cleanup_resources
    disconnects,    \* calls of mqtt_client.disconnect
    closes          \* calls of db_connection.close

\* the variables of the main thread
mainvars == <<mainpc, steps, exit_status, mqtt_client, db_connection,
              conn_caller, conn_attempt, conn_results, conn_sleeps,
              conn_result, loop_end, cleanups, disconnects, closes>>

\* the variables the message pipeline leaves alone
auxvars == <<node_number, label, subscriptions, mainvars>>

vars == <<phase, CONFIG, pc, msgNo, returned, escaped, msg, message_packet,
          nonce, decoded_result, decrypts, forwards, attempt, responses,
          sleeps, send_result, lastFailure, posted, shutdown_event, directory,
          node_number, label, subscriptions, mainvars>>

\* the main thread before main() is called
InitMainThread ==
    /\ mainpc = "main"
    /\ steps = <<>>
    /\ exit_status = -1
    /\ mqtt_client = "None"
    /\ db_connection = "None"
    /\ conn_caller = "none"
    /\ conn_attempt = 0
    /\ conn_results = <<>>
    /\ conn_sleeps = <<>>
    /\ conn_result = "none"
    /\ loop_end = "none"
    /\ cleanups = 0
    /\ disconnects = 0
    /\ closes = 0

Init ==
    /\ phase = "init"
    /\ CONFIG \in Configs
    /\ pc = "idle"
    /\ msgNo = 0
    /\ returned = 0
    /\ escaped = FALSE
    /\ msg = NoMessage
    /\ message_packet = NoMessage
    /\ nonce = <<>>
    /\ decoded_result = "none"
    /\ decrypts = 0
    /\ forwards = <<>>
    /\ attempt = 0
    /\ responses = <<>>
    /\ sleeps = <<>>
    /\ send_result = "none"
    /\ lastFailure = "none"
    /\ posted = <<>>
    /\ shutdown_event = FALSE
    /\ directory \in DirectorySamples
    /\ node_number = None
    /\ label = <<>>
    /\ subscriptions = <<>>
    /\ InitMainThread

(***************************************************************************)
(* Decisions of the code, one operator each.                               *)
(***************************************************************************)
\* faulty variant of validate_config: the MAX_RETRIES check is missing
validate_config_without_max_retries(c) ==
    /\ c.key_len # 0
    /\ c.retry_delay > 0

\* validate_config(): the required ENCRYPTION_KEY is set, MAX_RETRIES > 0,
\* RETRY_DELAY > 0
validate_config(c) ==
    /\ c.key_len # 0
    /\ c.max_retries > 0
    /\ c.retry_delay > 0

\* message_packet.HasField(name) for a member of the oneof payload_variant
HasField(p, name) == p.variant = name

\* faulty variant of FilterPasses: the destination is not compared
FilterPassesAnyDestination(p) ==
    /\ HasField(p, "encrypted")
    /\ ~HasField(p, "decoded")

\* the conditions of on_message under which decode_encrypted is called
FilterPasses(p) ==
    /\ p.to = BROADCAST_NUM
    /\ HasField(p, "encrypted")
    /\ ~HasField(p, "decoded")

\* faulty variant of IsTextPort: every port is forwarded
IsAnyPort(portnum) == portnum \in PortNums

\* message_packet.decoded.portnum == portnums_pb2.TEXT_MESSAGE_APP
IsTextPort(portnum) == portnum = TEXT_MESSAGE_APP

\* faulty variant of range_has: one iteration more
range_has_inclusive(i, n) == i <= n

\* `for i in range(n)`: i is a value of the loop
range_has(i, n) == i < n

\* faulty variant of IsSuccess: every 2xx status
IsSuccess2xx(status) == status >= 200 /\ status < 300

\* response.status_code == 200
IsSuccess(status) == status = HTTP_OK

\* faulty variant of ShouldSleep: a sleep after every failed attempt
ShouldSleepAlways(i, n) == i <= n - 1

\* attempt < max_retries - 1
ShouldSleep(i, n) == i < n - 1

\* faulty variant of sleep_time: a constant delay
sleep_time_constant(retry_delay, i) == retry_delay

\* CONFIG["retry_delay"] * (2 ** attempt)
sleep_time(retry_delay, i) == retry_delay * (2 ^ i)

(***************************************************************************)
(* Exceptions: where a raised exception lands.                             *)
(***************************************************************************)
\* the except clauses of the try statement called `name`
Clauses(name) ==
    CASE name = "send" -> SendClauses
      [] name = "text" -> TextClauses
      [] name = "decode" -> DecodeClauses
      [] name = "parse" -> ParseClauses
      [] name = "on_message" -> OnMessageClauses
      [] name = "on_connect" -> ConnectClauses
      [] name = "connect_mqtt_with_retry" -> ConnectRetryClauses
      [] name = "loop_body" -> LoopBodyClauses
      [] name = "main_loop" -> MainLoopClauses
      [] name = "main" -> MainClauses
      [] name = "cleanup_mqtt" -> CleanupMqttClauses
      [] name = "cleanup_resources" -> CleanupClauses

\* the try statement, among the enclosing ones (innermost first), whose
\* handler runs when exc is raised; "escaped" when none catches it
Raise(exc, frames) ==
    LET i == Unwind([k \in 1..Len(frames) |-> Clauses(frames[k])], exc, 1)
    IN IF i = 0 THEN "escaped" ELSE frames[i]

\* on_message returns to the MQTT client with decode_encrypted's result dres
Return(dres, failure) ==
    /\ pc' = "idle"
    /\ returned' = returned + 1
    /\ decoded_result' = dres
    /\ lastFailure' = failure
    /\ UNCHANGED escaped

\* the handler of try statement `frame` runs and the functions return from
\* there: the text handler lets decode_encrypted return True, the decode
\* handler returns False, the handlers of on_message return
Land(frame, failure) ==
    CASE frame = "text" -> Return("True", failure)
      [] frame = "decode" -> Return("False", failure)
      [] frame \in {"parse", "on_message"} -> Return("none", failure)
      [] frame = "escaped" ->
             /\ pc' = "crashed"
             /\ escaped' = TRUE
             /\ lastFailure' = failure
             /\ decoded_result' = "none"
             /\ UNCHANGED returned

(***************************************************************************)
(* Actions.                                                                *)
(***************************************************************************)
\* main() up to main_loop(): sys.exit(1) when validate_config() fails or a
\* later step of the initialisation (database, MQTT client, connection) does
main ==
    /\ phase = "init"
    /\ \E startup_ok \in BOOLEAN :
           phase' = IF validate_config(CONFIG) /\ startup_ok
                    THEN "running" ELSE "exited"
    /\ UNCHANGED <<CONFIG, pc, msgNo, returned, escaped, msg, message_packet,
                   nonce, decoded_result, decrypts, forwards, attempt,
                   responses, sleeps, send_result, lastFailure, posted,
                   shutdown_event, directory, auxvars>>

\* on_message(client, userdata, msg), up to the call of decode_encrypted
on_message(m) ==
    /\ phase = "running"
    /\ pc = "idle"
    /\ msgNo < MaxMessages
    /\ msgNo' = msgNo + 1
    /\ msg' = m
    /\ message_packet' = m
    /\ nonce' = <<>>
    /\ forwards' = <<>>
    /\ attempt' = 0
    /\ responses' = <<>>
    /\ sleeps' = <<>>
    /\ send_result' = "none"
    /\ posted' = <<>>
    /\ IF ~m.parsed
       THEN /\ decrypts' = 0
            /\ Land(Raise("DecodeError", <<"parse", "on_message">>), "envelope")
       ELSE IF FilterPasses(m)
       THEN /\ decrypts' = 1
            /\ pc' = "decode_encrypted"
            /\ decoded_result' = "none"
            /\ UNCHANGED <<returned, escaped, lastFailure>>
       ELSE /\ decrypts' = 0
            /\ Return("none", lastFailure)
    /\ UNCHANGED <<phase, CONFIG, shutdown_event, directory, auxvars>>

\* decode_encrypted(message_packet, encryption_key), up to the call of
\* send_to_dapnet_pocsag or to its return
decode_encrypted ==
    /\ pc = "decode_encrypted"
    /\ IF message_packet.encrypted = ""
       THEN /\ Return("False", lastFailure)
            /\ UNCHANGED <<nonce, message_packet, forwards, directory>>
       ELSE
         /\ nonce' = Nonce(message_packet)
         /\ IF ~AESKeyOk(CONFIG.key_len)
            THEN /\ Land(Raise("ValueError", <<"decode", "on_message">>), "cipher")
                 /\ UNCHANGED <<message_packet, forwards, directory>>
            ELSE IF ~message_packet.plain.wellformed
            THEN /\ Land(Raise("DecodeError", <<"decode", "on_message">>), "plaintext")
                 /\ UNCHANGED <<message_packet, forwards, directory>>
            ELSE
              /\ message_packet' =
                     [message_packet EXCEPT !.variant = "decoded", !.encrypted = ""]
              /\ directory' = directory_after_dispatch(directory, message_packet)
              /\ IF IsTextPort(message_packet.plain.portnum)
                 THEN LET u == Utf8Decode(message_packet.plain.payload)
                      IN IF u.ok
                         THEN /\ forwards' = Append(forwards,
                                     [text |-> u.text,
                                      client_id |-> create_node_id(message_packet.from)])
                              /\ pc' = "send_loop"
                              /\ UNCHANGED <<returned, escaped, decoded_result,
                                             lastFailure>>
                         ELSE /\ Land(Raise("UnicodeDecodeError",
                                            <<"text", "decode", "on_message">>), "text")
                              /\ UNCHANGED forwards
                 ELSE /\ Return("True", lastFailure)
                      /\ UNCHANGED forwards
    /\ UNCHANGED <<phase, CONFIG, msgNo, msg, decrypts, attempt, responses,
                   sleeps, send_result, posted, shutdown_event, auxvars>>

\* send_to_dapnet_pocsag: the head of `for attempt in range(max_retries)`,
\* and `return False` after the loop
send_loop ==
    /\ pc = "send_loop"
    /\ IF range_has(attempt, CONFIG.max_retries)
       THEN /\ pc' = "post"
            /\ UNCHANGED <<send_result, lastFailure>>
       ELSE /\ pc' = "send_done"
            /\ send_result' = "False"
            /\ lastFailure' = "forward"
    /\ UNCHANGED <<phase, CONFIG, msgNo, returned, escaped, msg, message_packet,
                   nonce, decoded_result, decrypts, forwards, attempt,
                   responses, sleeps, posted, shutdown_event, directory, auxvars>>

\* payload["text"] of the JSON body, built once before the loop from the
\* arguments of the call
payload_text(text_payload, client_id) == text_payload

PostedText ==
    payload_text(forwards[Len(forwards)].text, forwards[Len(forwards)].client_id)

\* what follows the try statement of the loop body: the backoff sleep when
\* attempts remain, else the next iteration
AfterAttempt ==
    IF ShouldSleep(attempt, CONFIG.max_retries)
    THEN /\ sleeps' = Append(sleeps, sleep_time(CONFIG.retry_delay, attempt))
         /\ pc' = "sleep"
         /\ UNCHANGED attempt
    ELSE /\ attempt' = attempt + 1
         /\ pc' = "send_loop"
         /\ UNCHANGED sleeps

\* requests.post returns a response with the given status
post_response(status) ==
    /\ pc = "post"
    /\ responses' = Append(responses, status)
    /\ posted' = Append(posted, PostedText)
    /\ IF IsSuccess(status)
       THEN /\ send_result' = "True"
            /\ pc' = "send_done"
            /\ UNCHANGED <<attempt, sleeps>>
       ELSE /\ AfterAttempt
            /\ UNCHANGED send_result
    /\ UNCHANGED <<phase, CONFIG, msgNo, returned, escaped, msg, message_packet,
                   nonce, decoded_result, decrypts, forwards, lastFailure,
                   shutdown_event, directory, auxvars>>

\* requests.post raises
post_raises(exc) ==
    /\ pc = "post"
    /\ responses' = Append(responses, 0)
    /\ posted' = Append(posted, PostedText)
    /\ LET frame == Raise(exc, <<"send", "text", "decode", "on_message">>)
       IN IF frame = "send"
          THEN /\ AfterAttempt
               /\ UNCHANGED <<returned, escaped, decoded_result, lastFailure>>
          ELSE /\ Land(frame, "forward")
               /\ UNCHANGED <<attempt, sleeps>>
    /\ UNCHANGED <<phase, CONFIG, msgNo, msg, message_packet, nonce, decrypts,
                   forwards, send_result, shutdown_event, directory, auxvars>>

\* time.sleep(sleep_time) returns
sleep ==
    /\ pc = "sleep"
    /\ attempt' = attempt + 1
    /\ pc' = "send_loop"
    /\ UNCHANGED <<phase, CONFIG, msgNo, returned, escaped, msg, message_packet,
                   nonce, decoded_result, decrypts, forwards, responses, sleeps,
                   send_result, lastFailure, posted, shutdown_event, directory,
                   auxvars>>

\* faulty variant of send_returns: a failed forward is submitted again
send_returns_requeue ==
    /\ pc = "send_done"
    /\ IF send_result = "False"
       THEN /\ pc' = "send_loop"
            /\ attempt' = 0
            /\ forwards' = Append(forwards, forwards[1])
            /\ UNCHANGED <<returned, escaped, decoded_result, lastFailure>>
       ELSE /\ Return("True", lastFailure)
            /\ UNCHANGED <<attempt, forwards>>
    /\ UNCHANGED <<phase, CONFIG, msgNo, msg, message_packet, nonce, decrypts,
                   responses, sleeps, send_result, posted, shutdown_event,
                   directory, auxvars>>

\* faulty variant of send_returns: decode_encrypted returns what the forward
\* returned
send_returns_forward_result ==
    /\ pc = "send_done"
    /\ Return(send_result, lastFailure)
    /\ UNCHANGED <<phase, CONFIG, msgNo, msg, message_packet, nonce, decrypts,
                   forwards, attempt, responses, sleeps, send_result, posted,
                   shutdown_event, directory, auxvars>>

\* send_to_dapnet_pocsag has returned: its result is not used,
\* decode_encrypted returns True and on_message returns
send_returns ==
    /\ pc = "send_done"
    /\ Return("True", lastFailure)
    /\ UNCHANGED <<phase, CONFIG, msgNo, msg, message_packet, nonce, decrypts,
                   forwards, attempt, responses, sleeps, send_result, posted,
                   shutdown_event, directory, auxvars>>

\* signal_handler(signum, frame), installed for SIGINT and SIGTERM by main()
signal_handler ==
    /\ \/ phase = "running"
       \/ phase = "init" /\ mainpc # "main"
    /\ shutdown_event' = TRUE
    /\ UNCHANGED <<phase, CONFIG, pc, msgNo, returned, escaped, msg,
                   message_packet, nonce, decoded_result, decrypts, forwards,
                   attempt, responses, sleeps, send_result, lastFailure, posted,
                   directory, auxvars>>

Next ==
    \/ main
    \/ signal_handler
    \/ \E m \in Messages : on_message(m)
    \/ decode_encrypted
    \/ send_loop
    \/ \E status \in StatusCodes : post_response(status)
    \/ \E exc \in PostExceptions : post_raises(exc)
    \/ sleep
    \/ send_returns

Spec == Init /\ [][Next]_vars

(***************************************************************************)
(* create_node_id on its own: called with None and with node numbers over  *)
(* the fixed32 range.                                                      *)
(***************************************************************************)
NodeNumbers ==
    {None}
    \cup {U32(hi, lo) : hi \in {0, 1, 43981, 65535},
                        lo \in (0..20) \cup {255, 256, 4096, 61185, 65535}}

\* the variables of the message pipeline and of main()
pipelinevars ==
    <<phase, CONFIG, pc, msgNo, returned, escaped, msg, message_packet, nonce,
      decoded_result, decrypts, forwards, attempt, responses, sleeps,
      send_result, lastFailure, posted, shutdown_event, directory>>

call_create_node_id(n) ==
    /\ node_number' = n
    /\ label' = create_node_id(n)
    /\ UNCHANGED <<pipelinevars, subscriptions, mainvars>>

NextLabel == \E n \in NodeNumbers : call_create_node_id(n)

SpecLabel == Init /\ [][NextLabel]_vars

(***************************************************************************)
(* The connection callback of the MQTT client, run for the first           *)
(* connection and for every reconnection.                                  *)
(***************************************************************************)
MaxConnects == 3

\* the reason codes of the callback, 7 being one the code has no text for
ResultCodes == {0, 1, 5, 7}

\* what client.subscribe does: it returns (MQTT_ERR_SUCCESS, mid) or
\* (MQTT_ERR_NO_CONN, None), or raises ValueError on a topic it rejects
SubscribeOutcomes == {"MQTT_ERR_SUCCESS", "MQTT_ERR_NO_CONN", "ValueError"}

\* faulty variant of subscribe_topic: the multi-level wildcard is missing
subscribe_topic_without_wildcard(config) ==
    config.root_topic \o config.channel

\* f"{CONFIG['root_topic']}{CONFIG['channel']}/#"
subscribe_topic(config) ==
    config.root_topic \o config.channel \o "/#"

\* on_connect(client, userdata, flags, rc, properties): one record per
\* callback, with the topics it subscribed to and whether an exception left it
on_connect(rc, outcome) ==
    /\ phase = "running"
    /\ Len(subscriptions) < MaxConnects
    /\ subscriptions' = Append(subscriptions,
           IF rc = 0
           THEN [rc |-> rc,
                 subscribed |-> <<subscribe_topic(CONFIG)>>,
                 result |-> outcome,
                 escaped |-> /\ outcome = "ValueError"
                             /\ Raise("ValueError", <<"on_connect">>) = "escaped"]
           ELSE [rc |-> rc,
                 subscribed |-> <<>>,
                 result |-> "none",
                 escaped |-> FALSE])
    /\ UNCHANGED <<pipelinevars, node_number, label, mainvars>>

InitConnect ==
    /\ phase = "running"
    /\ CONFIG \in ConnectConfigs
    /\ pc = "idle"
    /\ msgNo = 0
    /\ returned = 0
    /\ escaped = FALSE
    /\ msg = NoMessage
    /\ message_packet = NoMessage
    /\ nonce = <<>>
    /\ decoded_result = "none"
    /\ decrypts = 0
    /\ forwards = <<>>
    /\ attempt = 0
    /\ responses = <<>>
    /\ sleeps = <<>>
    /\ send_result = "none"
    /\ lastFailure = "none"
    /\ posted = <<>>
    /\ shutdown_event = FALSE
    /\ directory \in DirectorySamples
    /\ node_number = None
    /\ label = <<>>
    /\ subscriptions = <<>>
    /\ InitMainThread

NextConnect ==
    \E rc \in ResultCodes, outcome \in SubscribeOutcomes : on_connect(rc, outcome)

SpecConnect == InitConnect /\ [][NextConnect]_vars

(***************************************************************************)
(* The main thread: main(), connect_mqtt_with_retry(), main_loop() and     *)
(* cleanup_resources().                                                    *)
(***************************************************************************)
\* what the main thread leaves alone
callbackvars ==
    <<CONFIG, pc, msgNo, returned, escaped, msg, message_packet, nonce,
      decoded_result, decrypts, forwards, attempt, responses, sleeps,
      send_result, lastFailure, posted, shutdown_event, directory,
      node_number, label, subscriptions>>
clientvars == <<mqtt_client, db_connection>>
connvars == <<conn_caller, conn_attempt, conn_results, conn_sleeps, conn_result>>
cleanupvars == <<loop_end, cleanups, disconnects, closes>>

\* the startup steps of main(), in the order of its code
StartupOrder ==
    <<"validate_config", "prepare_encryption_key", "setup_database",
      "setup_mqtt_client", "connect_mqtt_with_retry">>

\* faulty variant of after_step: a failed database setup does not stop main()
after_step_database_ignored(name, ok) ==
    IF ~ok /\ name # "setup_database" THEN "exit"
    ELSE CASE name = "validate_config" -> "prepare_encryption_key"
           [] name = "prepare_encryption_key" -> "setup_database"
           [] name = "setup_database" -> "setup_mqtt_client"
           [] name = "setup_mqtt_client" -> "connect_mqtt_with_retry"
           [] name = "connect_mqtt_with_retry" -> "main_loop"

\* where main() goes after a startup step: to sys.exit(1) when it failed,
\* to the next statement otherwise
after_step(name, ok) ==
    IF ~ok THEN "exit"
    ELSE CASE name = "validate_config" -> "prepare_encryption_key"
           [] name = "prepare_encryption_key" -> "setup_database"
           [] name = "setup_database" -> "setup_mqtt_client"
           [] name = "setup_mqtt_client" -> "connect_mqtt_with_retry"
           [] name = "connect_mqtt_with_retry" -> "main_loop"

\* the process ends with the given status
Exit(status) ==
    /\ mainpc' = "exited"
    /\ exit_status' = status
    /\ phase' = "exited"

\* one startup step of main() has run with outcome ok
Step(name, ok) ==
    /\ steps' = Append(steps, [name |-> name, ok |-> ok])
    /\ IF after_step(name, ok) = "exit"
       THEN Exit(1)
       ELSE /\ mainpc' = after_step(name, ok)
            /\ UNCHANGED <<phase, exit_status>>

\* main(): the signal handlers are installed and the summary is logged
main_start ==
    /\ mainpc = "main"
    /\ mainpc' = "validate_config"
    /\ UNCHANGED <<phase, steps, exit_status, clientvars, connvars, cleanupvars,
                   callbackvars>>

\* `if not validate_config(): sys.exit(1)`
main_validate_config ==
    /\ mainpc = "validate_config"
    /\ Step("validate_config", validate_config(CONFIG))
    /\ UNCHANGED <<clientvars, connvars, cleanupvars, callbackvars>>

\* `encryption_key = prepare_encryption_key()`: it returns the key, or
\* raises, and then the handler of main() calls sys.exit(1)
main_prepare_encryption_key ==
    /\ mainpc = "prepare_encryption_key"
    /\ \E ok \in BOOLEAN : Step("prepare_encryption_key", ok)
    /\ UNCHANGED <<clientvars, connvars, cleanupvars, callbackvars>>

\* `if not setup_database(): sys.exit(1)`: it can fail before or after
\* sqlite3.connect has set db_connection
main_setup_database ==
    /\ mainpc = "setup_database"
    /\ \E ok \in BOOLEAN, opened \in BOOLEAN :
           /\ ok => opened
           /\ db_connection' = IF opened THEN "Connection" ELSE "None"
           /\ Step("setup_database", ok)
    /\ UNCHANGED <<mqtt_client, connvars, cleanupvars, callbackvars>>

\* `if not setup_mqtt_client(): sys.exit(1)`: it can fail before or after
\* mqtt.Client() has set mqtt_client
main_setup_mqtt_client ==
    /\ mainpc = "setup_mqtt_client"
    /\ \E ok \in BOOLEAN, made \in BOOLEAN :
           /\ ok => made
           /\ mqtt_client' = IF made THEN "Client" ELSE "None"
           /\ Step("setup_mqtt_client", ok)
    /\ UNCHANGED <<db_connection, connvars, cleanupvars, callbackvars>>

\* connect_mqtt_with_retry() is entered, from main() or from main_loop()
CallConnect(caller) ==
    /\ mainpc' = "conn_loop"
    /\ conn_caller' = caller
    /\ conn_attempt' = 0
    /\ conn_results' = <<>>
    /\ conn_sleeps' = <<>>
    /\ conn_result' = "none"

\* `if not connect_mqtt_with_retry():` in main(), the call
main_connect ==
    /\ mainpc = "connect_mqtt_with_retry"
    /\ CallConnect("main")
    /\ UNCHANGED <<phase, steps, exit_status, clientvars, cleanupvars,
                   callbackvars>>

\* what mqtt_client.connect does: it returns MQTT_ERR_SUCCESS or another
\* code, or raises
ConnectCodes == {"MQTT_ERR_SUCCESS", "MQTT_ERR_NO_CONN"}
ConnectExceptions == {"OSError", "ValueError"}

\* faulty variant of connect_should_sleep: a sleep after every failed attempt
connect_should_sleep_always(i, n) == i <= n - 1

\* attempt < max_retries - 1
connect_should_sleep(i, n) == i < n - 1

\* CONFIG["retry_delay"] * (2 ** attempt)
connect_sleep_time(retry_delay, i) == retry_delay * (2 ^ i)

\* connect_mqtt_with_retry: the head of `for attempt in range(max_retries)`,
\* and `return False` after the loop
conn_loop ==
    /\ mainpc = "conn_loop"
    /\ IF range_has(conn_attempt, CONFIG.max_retries)
       THEN /\ mainpc' = "conn_try"
            /\ UNCHANGED conn_result
       ELSE /\ mainpc' = "conn_return"
            /\ conn_result' = "False"
    /\ UNCHANGED <<phase, steps, exit_status, clientvars, conn_caller,
                   conn_attempt, conn_results, conn_sleeps, cleanupvars,
                   callbackvars>>

\* one attempt has failed: the sleep, or the next iteration
AfterConnectAttempt ==
    IF connect_should_sleep(conn_attempt, CONFIG.max_retries)
    THEN /\ mainpc' = "conn_sleep"
         /\ UNCHANGED conn_attempt
    ELSE /\ mainpc' = "conn_loop"
         /\ conn_attempt' = conn_attempt + 1

\* mqtt_client.connect(...) returns a code
conn_try_returns(code) ==
    /\ mainpc = "conn_try"
    /\ conn_results' = Append(conn_results, code)
    /\ IF code = "MQTT_ERR_SUCCESS"
       THEN /\ conn_result' = "True"
            /\ mainpc' = "conn_return"
            /\ UNCHANGED conn_attempt
       ELSE /\ AfterConnectAttempt
            /\ UNCHANGED conn_result
    /\ UNCHANGED <<phase, steps, exit_status, clientvars, conn_caller,
                   conn_sleeps, cleanupvars, callbackvars>>

\* mqtt_client.connect(...) raises
conn_try_raises(exc) ==
    /\ mainpc = "conn_try"
    /\ conn_results' = Append(conn_results, exc)
    /\ IF Raise(exc, <<"connect_mqtt_with_retry">>) = "connect_mqtt_with_retry"
       THEN /\ AfterConnectAttempt
            /\ UNCHANGED conn_result
       ELSE /\ conn_result' = "raised"
            /\ mainpc' = "conn_return"
            /\ UNCHANGED conn_attempt
    /\ UNCHANGED <<phase, steps, exit_status, clientvars, conn_caller,
                   conn_sleeps, cleanupvars, callbackvars>>

\* time.sleep(sleep_time) between two attempts
conn_sleep ==
    /\ mainpc = "conn_sleep"
    /\ conn_sleeps' = Append(conn_sleeps,
                             connect_sleep_time(CONFIG.retry_delay, conn_attempt))
    /\ conn_attempt' = conn_attempt + 1
    /\ mainpc' = "conn_loop"
    /\ UNCHANGED <<phase, steps, exit_status, clientvars, conn_caller,
                   conn_results, conn_result, cleanupvars, callbackvars>>

\* the while loop of main_loop() is left: by its condition, by a break, or
\* by an exception
EndLoop(how) ==
    /\ loop_end' = how
    /\ mainpc' = "cleanup_resources"

\* an exception raised in main_loop(), inside the given try statements:
\* the loop's handlers break or pause, the function's handler logs, and
\* anything else leaves main_loop() through its finally clause
LoopRaise(exc, frames) ==
    LET landing == Raise(exc, frames)
    IN CASE landing = "loop_body" ->
                IF LoopBodyClauses[FirstClause(LoopBodyClauses, exc, 1)]
                       = "KeyboardInterrupt"
                THEN EndLoop("KeyboardInterrupt")
                ELSE /\ mainpc' = "error_sleep"
                     /\ UNCHANGED loop_end
         [] landing = "main_loop" -> EndLoop("exception")
         [] landing \in {"main", "escaped"} ->
                EndLoop(IF Raise(exc, <<"main">>) = "main"
                           /\ MainClauses[FirstClause(MainClauses, exc, 1)]
                                  = "KeyboardInterrupt"
                        THEN "interrupted" ELSE "crashed")

\* connect_mqtt_with_retry() returns to its caller: main() goes on or exits,
\* main_loop() goes on to the health check or breaks
conn_return ==
    /\ mainpc = "conn_return"
    /\ IF conn_caller = "main"
       THEN /\ Step("connect_mqtt_with_retry", conn_result = "True")
            /\ UNCHANGED loop_end
       ELSE /\ CASE conn_result = "True" ->
                      /\ mainpc' = "health_sleep"
                      /\ UNCHANGED loop_end
                 [] conn_result = "False" -> EndLoop("reconnect_failed")
                 [] conn_result = "raised" ->
                      /\ mainpc' = "error_sleep"
                      /\ UNCHANGED loop_end
            /\ UNCHANGED <<phase, steps, exit_status>>
    /\ UNCHANGED <<clientvars, connvars, cleanups, disconnects, closes,
                   callbackvars>>

\* main_loop(): mqtt_client.loop_start() starts the thread of the callbacks
main_loop ==
    /\ mainpc = "main_loop"
    /\ \E outcome \in {"started", "RuntimeError"} :
           IF outcome = "started"
           THEN /\ phase' = "running"
                /\ mainpc' = "while"
                /\ UNCHANGED loop_end
           ELSE /\ LoopRaise(outcome, <<"main_loop", "main">>)
                /\ UNCHANGED phase
    /\ UNCHANGED <<steps, exit_status, clientvars, connvars, cleanups,
                   disconnects, closes, callbackvars>>

\* `while not shutdown_event.is_set():`
main_while ==
    /\ mainpc = "while"
    /\ IF shutdown_event
       THEN EndLoop("shutdown")
       ELSE /\ mainpc' = "is_connected"
            /\ UNCHANGED loop_end
    /\ UNCHANGED <<phase, steps, exit_status, clientvars, connvars, cleanups,
                   disconnects, closes, callbackvars>>

\* `if not mqtt_client.is_connected():` and, when it is not, the call of
\* connect_mqtt_with_retry()
main_is_connected ==
    /\ mainpc = "is_connected"
    /\ \E outcome \in {"True", "False", "RuntimeError"} :
           CASE outcome = "True" ->
                  /\ mainpc' = "health_sleep"
                  /\ UNCHANGED <<loop_end, connvars>>
             [] outcome = "False" ->
                  /\ CallConnect("main_loop")
                  /\ UNCHANGED loop_end
             [] outcome = "RuntimeError" ->
                  /\ LoopRaise(outcome, <<"loop_body", "main_loop", "main">>)
                  /\ UNCHANGED connvars
    /\ UNCHANGED <<phase, steps, exit_status, clientvars, cleanups,
                   disconnects, closes, callbackvars>>

\* time.sleep(10), which a KeyboardInterrupt can end
main_health_sleep ==
    /\ mainpc = "health_sleep"
    /\ \E outcome \in {"slept", "KeyboardInterrupt"} :
           IF outcome = "slept"
           THEN /\ mainpc' = "while"
                /\ UNCHANGED loop_end
           ELSE LoopRaise(outcome, <<"loop_body", "main_loop", "main">>)
    /\ UNCHANGED <<phase, steps, exit_status, clientvars, connvars, cleanups,
                   disconnects, closes, callbackvars>>

\* time.sleep(5) in the handler of the loop's try statement, which a
\* KeyboardInterrupt can end too
main_error_sleep ==
    /\ mainpc = "error_sleep"
    /\ \E outcome \in {"slept", "KeyboardInterrupt"} :
           IF outcome = "slept"
           THEN /\ mainpc' = "while"
                /\ UNCHANGED loop_end
           ELSE LoopRaise(outcome, <<"main_loop", "main">>)
    /\ UNCHANGED <<phase, steps, exit_status, clientvars, connvars, cleanups,
                   disconnects, closes, callbackvars>>

\* faulty variant of disconnect_frames: disconnect() has no try statement of
\* its own
disconnect_frames_outer_only == <<"cleanup_resources">>

\* the try statements around mqtt_client.disconnect(), innermost first
disconnect_frames == <<"cleanup_mqtt", "cleanup_resources">>

\* cleanup_resources(), called in the finally clause of main_loop(), and the
\* end of main(): an exception of db_connection.close() is logged
cleanup_resources ==
    /\ mainpc = "cleanup_resources"
    /\ cleanups' = cleanups + 1
    /\ \E outcome \in {"disconnected", "RuntimeError"} :
           LET called == mqtt_client = "Client"
               goes_on == \/ ~called
                          \/ outcome = "disconnected"
                          \/ Raise(outcome, disconnect_frames) = "cleanup_mqtt"
           IN /\ disconnects' = IF called THEN disconnects + 1 ELSE disconnects
              /\ closes' = IF goes_on /\ db_connection = "Connection"
                           THEN closes + 1 ELSE closes
    /\ Exit(IF loop_end = "crashed" THEN 1 ELSE 0)
    /\ UNCHANGED <<steps, clientvars, connvars, loop_end, callbackvars>>

MainThread ==
    \/ main_start
    \/ main_validate_config
    \/ main_prepare_encryption_key
    \/ main_setup_database
    \/ main_setup_mqtt_client
    \/ main_connect
    \/ conn_loop
    \/ \E code \in ConnectCodes : conn_try_returns(code)
    \/ \E exc \in ConnectExceptions : conn_try_raises(exc)
    \/ conn_sleep
    \/ conn_return
    \/ main_loop
    \/ main_while
    \/ main_is_connected
    \/ main_health_sleep
    \/ main_error_sleep
    \/ cleanup_resources

NextMain == MainThread \/ signal_handler

\* the main thread is scheduled as long as it has a step to take
SpecMain == Init /\ [][NextMain]_vars /\ WF_vars(MainThread)

(***************************************************************************)
(* Properties.                                                             *)
(***************************************************************************)
N == CONFIG.max_retries
Posts == Len(responses)
\* the call of send_to_dapnet_pocsag is over
ForwardOver == Len(forwards) > 0 /\ pc \in {"send_done", "idle", "crashed"}
Got200(i) == responses[i] = 200
AllFailed == \A i \in 1..Posts : ~Got200(i)

\* C1: in a process whose configuration passed validation, a call of
\* send_to_dapnet_pocsag makes at least 1 and at most max_retries POST
\* attempts, and no attempt follows an attempt that received HTTP 200: the
\* call returns True at once.
C1_AttemptsBounded ==
    phase = "running" =>
        /\ Posts <= N
        /\ (ForwardOver => Posts >= 1)
        /\ \A i \in 1..Posts :
               Got200(i) => /\ i = Posts
                            /\ pc \in {"send_done", "idle"}
                            /\ send_result = "True"

C1_Witness ==
    /\ N >= 2
    /\ Posts = N
    /\ Got200(Posts)
    /\ pc = "idle"

\* C2: when every attempt fails (a status other than 200 or an exception of
\* requests.post), the forwarder makes exactly max_retries attempts and
\* returns False, no exception leaves it, and the message is not submitted
\* again afterwards.
C2_AllFailGivesUp ==
    /\ (Len(forwards) > 0 => ~escaped /\ pc # "crashed")
    /\ (ForwardOver /\ AllFailed =>
            /\ Posts = N
            /\ send_result = "False"
            /\ Len(forwards) = 1)

C2_Witness ==
    /\ pc = "idle"
    /\ send_result = "False"
    /\ N >= 2
    /\ Posts = N
    /\ responses[1] = 0
    /\ responses[2] = 500

\* C3: when the first k attempts fail (0 <= k < max_retries) and attempt
\* k+1 receives HTTP 200, there are exactly k+1 attempts and exactly k
\* backoff waits, each wait strictly longer than the one before, and the
\* result is True; the forwarder never gives up before max_retries attempts.
C3_FailThenSucceed ==
    /\ \A i \in 1..Posts :
           Got200(i) =>
               /\ i <= N
               /\ Posts = i
               /\ Len(sleeps) = i - 1
               /\ \A j \in 1..(Len(sleeps) - 1) : sleeps[j] < sleeps[j + 1]
               /\ send_result = "True"
    /\ (send_result = "False" => Posts >= N)

C3_Witness ==
    /\ N = 3
    /\ Posts = 3
    /\ ~Got200(1) /\ ~Got200(2) /\ Got200(3)
    /\ Len(sleeps) = 2
    /\ send_result = "True"

\* C4: the wait after failed attempt i (counted from 0) is retry_delay * 2^i
\* seconds: the first wait is retry_delay and every wait is twice the one
\* before.  A wait only happens between two attempts: it follows a failed
\* attempt, none follows the last attempt max_retries - 1 and none follows a
\* successful attempt.
C4_BackoffSchedule ==
    /\ Len(sleeps) >= 1 => sleeps[1] = CONFIG.retry_delay
    /\ \A j \in 1..(Len(sleeps) - 1) : sleeps[j + 1] = 2 * sleeps[j]
    /\ \A j \in 1..Len(sleeps) : j <= Posts /\ ~Got200(j) /\ j <= N - 1
    /\ (pc = "sleep" => Len(sleeps) = Posts /\ attempt = Posts - 1)
    /\ (pc = "post" => Len(sleeps) = Posts)
    /\ (ForwardOver /\ Posts > 0 => Len(sleeps) = Posts - 1)

C4_Witness ==
    /\ Len(sleeps) = 2
    /\ CONFIG.retry_delay = 2
    /\ sleeps = <<2, 4>>
    /\ send_result = "False"

\* C5: the forwarder returns True if and only if some attempt received a
\* response with status exactly 200; any other status, another 2xx included,
\* is not a success and is followed by another attempt when attempts remain.
C5_OnlyStatus200 ==
    /\ (send_result = "True" <=> \E i \in 1..Posts : Got200(i))
    /\ (send_result = "False" => AllFailed)
    /\ (ForwardOver /\ Posts > 0 /\ ~Got200(Posts) => Posts >= N)

C5_Witness ==
    /\ Posts = 2
    /\ responses[1] = 204
    /\ Got200(2)
    /\ send_result = "True"

\* the inbound message satisfies the three conditions of the ingress filter
InFilter ==
    /\ msg.parsed
    /\ msg.to = U32(65535, 65535)
    /\ msg.variant = "encrypted"
    /\ msg.variant # "decoded"

\* C6: decode_encrypted is called for an inbound message only if its
\* envelope parsed, the packet's destination is the broadcast address, the
\* packet carries an encrypted body and carries no decoded body; for a
\* message outside this filter there is no decryption (no nonce is built),
\* no forward and no POST.
C6_IngressFilter ==
    /\ (decrypts > 0 \/ pc = "decode_encrypted" \/ nonce # <<>> => InFilter)
    /\ (msgNo > 0 /\ ~InFilter =>
            /\ decrypts = 0
            /\ forwards = <<>>
            /\ responses = <<>>
            /\ decoded_result = "none"
            /\ pc = "idle")

C6_Witness ==
    /\ msgNo > 0
    /\ pc = "idle"
    /\ returned = msgNo
    /\ msg.parsed
    /\ msg.to # U32(65535, 65535)
    /\ msg.variant = "encrypted"
    /\ msg.encrypted # ""
    /\ msg.plain.wellformed
    /\ msg.plain.portnum = "TEXT_MESSAGE_APP"
    /\ msg.plain.payload = <<72, 105>>
    /\ decrypts = 0

\* the failure, if any, that the pipeline of the inbound message meets
\* before the forward
PipelineFailure ==
    IF ~msg.parsed THEN "envelope"
    ELSE IF ~InFilter \/ msg.encrypted = "" THEN "none"
    ELSE IF CONFIG.key_len \notin {16, 24, 32} THEN "cipher"
    ELSE IF ~msg.plain.wellformed THEN "plaintext"
    ELSE IF msg.plain.portnum = "TEXT_MESSAGE_APP"
            /\ msg.plain.payload \in {<<255>>, <<72, 195>>, <<192, 128>>,
                                      <<237, 160, 128>>}
    THEN "text"
    ELSE "none"

\* C7: no inbound message crashes the ingestion loop.  Whatever fails in the
\* pipeline of a message (envelope parse, cipher, plaintext parse, UTF-8
\* decoding of the text, the forward after all its attempts), no exception
\* leaves on_message, every message delivered so far has had on_message
\* return normally (so the next one is handled), and the failing packet is
\* dropped: it is not forwarded.
C7_NoCrash ==
    /\ ~escaped
    /\ pc # "crashed"
    /\ returned = (IF pc = "idle" THEN msgNo ELSE msgNo - 1)
    /\ (msgNo > 0 /\ PipelineFailure # "none" =>
            /\ forwards = <<>>
            /\ responses = <<>>
            /\ (pc = "idle" => lastFailure = PipelineFailure))
    /\ (send_result = "False" /\ pc = "idle" =>
            lastFailure = "forward" /\ Len(forwards) = 1)

\* a message is being forwarded successfully after the forward of an
\* earlier one failed on all attempts
C7_Witness ==
    /\ msgNo = 2
    /\ returned = 2
    /\ lastFailure = "forward"
    /\ send_result = "True"
    /\ pc = "idle"

\* the text and the node id label expected for the sampled payloads and
\* senders
ExpectedText(body) ==
    CASE body = <<>> -> <<>>
      [] body = <<72, 105>> -> <<72, 105>>
      [] body = <<97, 95, 98>> -> <<97, 95, 98>>
      [] body = <<195, 169>> -> <<233>>
      [] body = <<226, 130, 172>> -> <<8364>>
      [] OTHER -> <<-1>>

ExpectedLabel(from) ==
    CASE from = U32(0, 1) -> <<"!", "1">>
      [] from = U32(1, 0) -> <<"!", "1", "0", "0", "0", "0">>
      [] from = U32(43981, 61185) -> <<"!", "a", "b", "c", "d", "e", "f", "0", "1">>
      [] from = U32(65535, 65535) -> <<"!", "f", "f", "f", "f", "f", "f", "f", "f">>
      [] OTHER -> <<"?">>

\* decode_encrypted has decrypted and parsed the payload and is past the
\* dispatch on the port
Dispatched ==
    \/ pc \in {"send_loop", "post", "sleep", "send_done"}
    \/ pc = "idle" /\ decoded_result = "True"

\* C8: a decrypted payload is handed to send_to_dapnet_pocsag if and only if
\* its port is TEXT_MESSAGE_APP and its body is valid UTF-8, with the
\* decoded text and the node id label of the sender as arguments; a text
\* body that is not UTF-8 and a payload on any other port cause no forward,
\* and decode_encrypted still returns True for them.
C8_ForwardOnlyText ==
    Dispatched =>
        /\ msg.plain.wellformed
        /\ (forwards # <<>> <=>
                /\ msg.plain.portnum = "TEXT_MESSAGE_APP"
                /\ ExpectedText(msg.plain.payload) # <<-1>>)
        /\ (forwards # <<>> =>
                /\ forwards[1].text = ExpectedText(msg.plain.payload)
                /\ forwards[1].client_id = ExpectedLabel(msg.from))
        /\ (forwards = <<>> => pc = "idle" /\ responses = <<>>)

C8_Witness ==
    /\ pc = "idle"
    /\ decoded_result = "True"
    /\ Len(forwards) = 1
    /\ forwards[1].text = <<8364>>
    /\ forwards[1].client_id = <<"!", "a", "b", "c", "d", "e", "f", "0", "1">>

\* a text body that is not UTF-8 was dispatched without a forward
C8_WitnessInvalidText ==
    /\ pc = "idle"
    /\ decoded_result = "True"
    /\ msg.plain.portnum = "TEXT_MESSAGE_APP"
    /\ msg.plain.payload = <<192, 128>>
    /\ forwards = <<>>

\* C9: each inbound message leads to at most one call of decode_encrypted
\* and at most one call of send_to_dapnet_pocsag (hence at most max_retries
\* POSTs), and a message whose decryption or forward failed is not
\* submitted to either again.
C9_AtMostOnce ==
    /\ decrypts <= 1
    /\ Len(forwards) <= 1
    /\ Len(forwards) <= decrypts
    /\ Posts <= Len(forwards) * N
    /\ (decoded_result = "False" => pc = "idle" /\ forwards = <<>>)
    /\ (send_result = "False" => pc \in {"send_done", "idle"})

C9_Witness ==
    /\ msgNo = 2
    /\ pc = "idle"
    /\ decrypts = 1
    /\ Len(forwards) = 1
    /\ send_result = "False"
    /\ Posts = 3

\* C10: the nonce of the decryptor is 16 bytes: the 8 bytes of the packet id
\* in little-endian order (least significant byte first, the upper four
\* bytes zero for a 32-bit id), then the 8 bytes of the sender node id in
\* little-endian order.
C10_Nonce ==
    nonce # <<>> =>
        /\ Len(nonce) = 16
        /\ \A i \in 1..16 : nonce[i] \in 0..255
        /\ nonce[1] + 256 * nonce[2] = msg.id.lo
        /\ nonce[3] + 256 * nonce[4] = msg.id.hi
        /\ \A i \in 5..8 : nonce[i] = 0
        /\ nonce[9] + 256 * nonce[10] = msg.from.lo
        /\ nonce[11] + 256 * nonce[12] = msg.from.hi
        /\ \A i \in 13..16 : nonce[i] = 0

C10_Witness ==
    /\ msg.id = U32(4660, 22136)
    /\ msg.from = U32(43981, 61185)
    /\ nonce = <<120, 86, 52, 18, 0, 0, 0, 0, 1, 239, 205, 171, 0, 0, 0, 0>>

\* the value of a sequence of hexadecimal digits, most significant first
LowerHexChars ==
    <<"0", "1", "2", "3", "4", "5", "6", "7", "8", "9", "a", "b", "c", "d", "e", "f">>
IsLowerHex(c) == \E k \in 1..16 : LowerHexChars[k] = c
RECURSIVE HexValue(_)
HexValue(digits) ==
    IF digits = <<>> THEN 0
    ELSE 16 * HexValue(SubSeq(digits, 1, Len(digits) - 1))
         + (CHOOSE k \in 0..15 : LowerHexChars[k + 1] = digits[Len(digits)])

\* C11: for a node number n >= 0 the label is "!" followed by the lowercase
\* hexadecimal digits of n, without zero padding and without "0x"; for None
\* it is "!unknown".
C11_NodeIdLabel ==
    label # <<>> =>
        IF node_number = None
        THEN label = <<"!", "u", "n", "k", "n", "o", "w", "n">>
        ELSE LET digits == Tail(label)
                 low == IF Len(digits) > 4 THEN 4 ELSE Len(digits)
             IN /\ label[1] = "!"
                /\ Len(digits) \in 1..8
                /\ \A i \in 1..Len(digits) : IsLowerHex(digits[i])
                /\ (Len(digits) > 1 => digits[1] # "0")
                /\ HexValue(SubSeq(digits, Len(digits) - low + 1, Len(digits)))
                       = node_number.lo
                /\ HexValue(SubSeq(digits, 1, Len(digits) - low))
                       = node_number.hi

C11_Witness ==
    /\ node_number = U32(43981, 61185)
    /\ label = <<"!", "a", "b", "c", "d", "e", "f", "0", "1">>

\* the label of an absent node number
C11_WitnessUnknown ==
    /\ node_number = None
    /\ label = <<"!", "u", "n", "k", "n", "o", "w", "n">>

\* the escape set _ * [ ] ( ) ~ ` > # + - = | { } . ! as code points, and
\* the text with each of its characters prefixed by a backslash
EscapeSet ==
    {95, 42, 91, 93, 40, 41, 126, 96, 62, 35, 43, 45, 61, 124, 123, 125, 46, 33}
RECURSIVE Escaped(_)
Escaped(text) ==
    IF text = <<>> THEN <<>>
    ELSE (IF text[1] \in EscapeSet THEN <<92, text[1]>> ELSE <<text[1]>>)
         \o Escaped(Tail(text))

\* C12: in the text of every POST of a forward, each character of the
\* escape set is prefixed with one backslash and the other characters of the
\* received text are unchanged.
C12_SanitizedBeforePost ==
    \A i \in 1..Len(posted) : posted[i] = Escaped(forwards[1].text)

\* the code points of a node id label and of the sampled display name
CharCode(c) ==
    CASE c = "!" -> 33
      [] c = "0" -> 48 [] c = "1" -> 49 [] c = "2" -> 50 [] c = "3" -> 51
      [] c = "4" -> 52 [] c = "5" -> 53 [] c = "6" -> 54 [] c = "7" -> 55
      [] c = "8" -> 56 [] c = "9" -> 57
      [] c = "a" -> 97 [] c = "b" -> 98 [] c = "c" -> 99 [] c = "d" -> 100
      [] c = "e" -> 101 [] c = "f" -> 102
LabelCodes(lbl) == [i \in 1..Len(lbl) |-> CharCode(lbl[i])]
NameCodes(name) ==
    CASE name = "Alpha" -> <<65, 108, 112, 104, 97>>
      [] name = "B" -> <<66>>
      [] OTHER -> <<>>

\* the display name the table has for a sender: its long_name when there is
\* a row with a non-empty one, else ""
DisplayName(lbl) ==
    IF \E row \in directory : row.client_id = lbl /\ row.long_name # ""
    THEN (CHOOSE row \in directory : row.client_id = lbl /\ row.long_name # "").long_name
    ELSE ""

\* "*{display_name} ({sender_label})*:" or "*{sender_label}*:"
SenderPrefix(lbl) ==
    IF DisplayName(lbl) # ""
    THEN <<42>> \o NameCodes(DisplayName(lbl)) \o <<32, 40>> \o LabelCodes(lbl)
         \o <<41, 42, 58>>
    ELSE <<42>> \o LabelCodes(lbl) \o <<42, 58>>

\* C13: the text of every POST starts with the sender prefix, with the
\* display name when the table has one for the sender and with the label
\* alone otherwise, followed by the sanitized body.
C13_SenderPrefix ==
    \A i \in 1..Len(posted) :
        posted[i] = SenderPrefix(forwards[1].client_id) \o Escaped(forwards[1].text)

\* C14: decode_encrypted has no side effect: the packet it is given is left
\* as received, the table is untouched, and no POST is made before it has
\* returned its result.
C14_DecryptPure ==
    /\ message_packet = msg
    /\ directory \in DirectorySamples
    /\ (Len(responses) > 0 \/ pc \in {"send_loop", "post", "sleep", "send_done"}
            => decoded_result # "none")

\* C15: once shutdown_event is set during a forward, no further attempt is
\* started and no further backoff sleep is begun.
C15_ShutdownStopsRetries ==
    [][shutdown_event =>
           /\ ~(pc = "send_loop" /\ pc' = "post")
           /\ ~(pc # "sleep" /\ pc' = "sleep")]_vars

\* C16: while the forward of one message is in its attempts and backoff
\* waits, the next inbound message can be taken by on_message (filtered and
\* decrypted) before that forward has finished.
C16_IngestDuringForward ==
    (phase = "running" /\ msgNo < MaxMessages
        /\ pc \in {"send_loop", "post", "sleep"})
    => ENABLED (\E m \in Messages : on_message(m))

\* the names a NODEINFO_APP payload carries and the latitude a POSITION_APP
\* payload carries, for the sampled payloads
LongNameOf(body) == IF body = <<18, 1, 66, 26, 1, 98>> THEN "B" ELSE ""
ShortNameOf(body) == IF body = <<18, 1, 66, 26, 1, 98>> THEN "b" ELSE ""
LatitudeOf(body) == IF body = <<13, 1, 0, 0, 0>> THEN 1 ELSE 0

\* C17: after a NODEINFO_APP payload from node X has been decrypted and
\* dispatched, the table holds a row keyed by the label of X with the
\* long_name and short_name of the payload; and the row the table started
\* with is never deleted.
C17_NodeInfoUpsert ==
    /\ \E row \in directory : row.client_id = <<"!", "1">>
    /\ (pc = "idle" /\ decoded_result = "True"
            /\ msg.plain.portnum = "NODEINFO_APP"
        => \E row \in directory :
               /\ row.client_id = create_node_id(msg.from)
               /\ row.long_name = LongNameOf(msg.plain.payload)
               /\ row.short_name = ShortNameOf(msg.plain.payload))

\* C18: handling a POSITION_APP payload whose latitude is 0 leaves the table
\* as it is: no row is created and no field of a row changes.
C18_ZeroLatitudeNoOp ==
    [][/\ pc = "decode_encrypted"
       /\ message_packet.plain.portnum = "POSITION_APP"
       /\ LatitudeOf(message_packet.plain.payload) = 0
       => directory' = directory]_vars

\* a position with latitude 0 from the sender that has a row, and one from
\* an unknown sender, were dispatched
C18_Witness ==
    /\ pc = "idle"
    /\ decoded_result = "True"
    /\ msg.plain.portnum = "POSITION_APP"
    /\ msg.plain.payload = <<>>
    /\ msg.from = U32(0, 1)
    /\ directory = {DirectoryRow(<<"!", "1">>, "Alpha", "A")}

\* C20: once decode_encrypted has returned, its result is True when the
\* encrypted body was present, the cipher was built and the plaintext parsed,
\* whatever became of the text body and of the forward, and False otherwise.
C20_ResultIgnoresDelivery ==
    pc = "idle" /\ decrypts = 1
    => decoded_result =
           IF /\ msg.encrypted # ""
              /\ CONFIG.key_len \in {16, 24, 32}
              /\ msg.plain.wellformed
           THEN "True"
           ELSE "False"

\* a forward that failed on all attempts, after which decode_encrypted
\* returned True
C20_Witness ==
    /\ pc = "idle"
    /\ decrypts = 1
    /\ CONFIG.max_retries = MaxRetries
    /\ Len(responses) = MaxRetries
    /\ send_result = "False"
    /\ decoded_result = "True"

\* a text body that is not valid UTF-8, after which decode_encrypted
\* returned True
C20_WitnessInvalidText ==
    /\ pc = "idle"
    /\ decrypts = 1
    /\ lastFailure = "text"
    /\ forwards = <<>>
    /\ decoded_result = "True"

\* a packet that failed to decrypt or to parse
C20_WitnessFalse ==
    /\ pc = "idle"
    /\ decrypts = 1
    /\ lastFailure \in {"cipher", "plaintext"}
    /\ decoded_result = "False"

\* the topic filter of section 2 for the sampled configurations
ExpectedFilter ==
    CASE CONFIG.root_topic = "msh/MY_919/2/e/" /\ CONFIG.channel = "LongFast"
             -> "msh/MY_919/2/e/LongFast/#"
      [] CONFIG.root_topic = "msh/MY_919/2/e/" /\ CONFIG.channel = "Test"
             -> "msh/MY_919/2/e/Test/#"
      [] CONFIG.root_topic = "msh/" /\ CONFIG.channel = "LongFast"
             -> "msh/LongFast/#"
      [] CONFIG.root_topic = "msh/" /\ CONFIG.channel = "Test"
             -> "msh/Test/#"

\* C19: every connection callback with result code 0, the first one and
\* every later one, subscribes to exactly '{root_topic}{channel}/#'; one with
\* another result code subscribes to nothing; and no exception leaves a
\* callback.
C19_SubscribeOnConnect ==
    \A i \in 1..Len(subscriptions) :
        /\ ~subscriptions[i].escaped
        /\ subscriptions[i].subscribed =
               IF subscriptions[i].rc = 0 THEN <<ExpectedFilter>> ELSE <<>>

\* a connection, a refused reconnection and a reconnection that succeeded,
\* the last one with a subscribe call that raised
C19_Witness ==
    /\ Len(subscriptions) = 3
    /\ subscriptions[1].rc = 0
    /\ subscriptions[2].rc = 5
    /\ subscriptions[3].rc = 0
    /\ subscriptions[3].result = "ValueError"
    /\ subscriptions[3].subscribed = <<"msh/Test/#">>

\* the while loop of main_loop() has ended, or the process has ended
MainLoopOver == mainpc \in {"cleanup_resources", "exited"}

\* C21: once a signal has set the shutdown event the main loop stops
\* iterating; and however main_loop() ends, cleanup_resources() runs once,
\* after the loop and never before, and calls mqtt_client.disconnect() and
\* db_connection.close() once each.
C21_ShutdownAndCleanup ==
    /\ shutdown_event ~> MainLoopOver
    /\ [](loop_end = "none" => cleanups = 0)
    /\ [](cleanups <= 1 /\ disconnects <= 1 /\ closes <= 1)
    /\ [](mainpc = "exited" /\ loop_end # "none"
          => cleanups = 1 /\ disconnects = 1 /\ closes = 1)

\* a signal ended the loop while it iterated, and the resources were released
C21_Witness ==
    /\ mainpc = "exited"
    /\ shutdown_event
    /\ phase = "exited"
    /\ loop_end = "shutdown"
    /\ Len(steps) = 5
    /\ cleanups = 1
    /\ disconnects = 1
    /\ closes = 1

\* the other ways main_loop() ends, each followed by the cleanup
C21_WitnessReconnectFailed ==
    mainpc = "exited" /\ loop_end = "reconnect_failed" /\ closes = 1
C21_WitnessKeyboardInterrupt ==
    mainpc = "exited" /\ loop_end = "KeyboardInterrupt" /\ closes = 1
C21_WitnessException ==
    mainpc = "exited" /\ loop_end = "exception" /\ closes = 1
C21_WitnessInterrupted ==
    mainpc = "exited" /\ loop_end = "interrupted" /\ closes = 1

\* attempt i of the current call of connect_mqtt_with_retry succeeded
Connected(i) == conn_results[i] = "MQTT_ERR_SUCCESS"

\* C22: a call of connect_mqtt_with_retry makes at most max_retries attempts;
\* it returns True at the first attempt that succeeds and makes none after
\* it; it sleeps retry_delay * 2^attempt between attempts only; after
\* max_retries failed attempts it returns False and raises nothing; and when
\* the call made by main_loop returns False the loop is over, with no later
\* call.
C22_ConnectBounded ==
    /\ Len(conn_results) <= CONFIG.max_retries
    /\ conn_result # "raised"
    /\ \A i \in 1..Len(conn_results) :
           Connected(i) => i = Len(conn_results) /\ conn_result = "True"
    /\ conn_result = "True"
       => Len(conn_results) > 0 /\ Connected(Len(conn_results))
    /\ conn_result = "False"
       => /\ Len(conn_results) = CONFIG.max_retries
          /\ \A i \in 1..Len(conn_results) : ~Connected(i)
    /\ \A i \in 1..Len(conn_sleeps) :
           conn_sleeps[i] = CONFIG.retry_delay * 2 ^ (i - 1)
    /\ mainpc = "conn_try" => Len(conn_sleeps) = Len(conn_results)
    /\ conn_result # "none" => Len(conn_sleeps) = Len(conn_results) - 1
    /\ conn_caller = "main_loop" /\ conn_result = "False" /\ mainpc # "conn_return"
       => MainLoopOver /\ loop_end = "reconnect_failed"

\* main_loop found the client disconnected, every attempt to reconnect
\* failed, and the process ended
C22_Witness ==
    /\ conn_caller = "main_loop"
    /\ conn_result = "False"
    /\ CONFIG.max_retries = MaxRetries
    /\ CONFIG.retry_delay = MaxDelay
    /\ Len(conn_results) = MaxRetries
    /\ Len(conn_sleeps) = MaxRetries - 1
    /\ mainpc = "exited"
    /\ loop_end = "reconnect_failed"

\* a reconnection that succeeded at its last attempt, after which the loop
\* went on
C22_WitnessLastAttempt ==
    /\ conn_caller = "main_loop"
    /\ conn_result = "True"
    /\ CONFIG.max_retries = MaxRetries
    /\ Len(conn_results) = MaxRetries
    /\ conn_results[1] = "OSError"
    /\ mainpc = "is_connected"

\* main_loop() has been entered, or a callback can run
LoopEntered ==
    \/ mainpc \in {"main_loop", "while", "is_connected", "health_sleep",
                   "error_sleep", "cleanup_resources"}
    \/ conn_caller = "main_loop"
    \/ loop_end # "none"
    \/ phase = "running"

\* the first n startup steps have run and succeeded
Succeeded(n) == Len(steps) >= n /\ \A i \in 1..n : steps[i].ok

\* C23: the startup steps run in the order validation, key preparation,
\* database setup, client setup, broker connection, each only after the ones
\* before it succeeded; main_loop and the callbacks start only after all
\* five succeeded; and a step that fails is the last one, the process
\* exiting with status 1 without entering main_loop.
C23_StartupFailStop ==
    /\ Len(steps) <= Len(StartupOrder)
    /\ \A i \in 1..Len(steps) : steps[i].name = StartupOrder[i]
    /\ Succeeded(Len(steps) - 1)
    /\ Len(steps) >= 1 => steps[1].ok = validate_config(CONFIG)
    /\ Len(steps) = 5 /\ conn_caller = "main"
       => steps[5].ok = (conn_result = "True")
    /\ db_connection # "None" => Len(steps) >= 3
    /\ mqtt_client # "None" => Len(steps) >= 4
    /\ conn_caller # "none" => Succeeded(4)
    /\ LoopEntered => Succeeded(5)
    /\ Len(steps) >= 1 /\ ~steps[Len(steps)].ok
       => /\ mainpc = "exited"
          /\ exit_status = 1
          /\ ~LoopEntered
          /\ cleanups = 0

\* the five steps succeeded and the callbacks run
C23_Witness ==
    /\ phase = "running"
    /\ mainpc = "is_connected"
    /\ Succeeded(5)
    /\ Len(conn_results) = 2

\* the database setup failed and the process exited before the client setup
C23_WitnessDatabaseFails ==
    /\ mainpc = "exited"
    /\ exit_status = 1
    /\ Len(steps) = 3
    /\ ~steps[3].ok
    /\ db_connection = "Connection"
    /\ mqtt_client = "None"

\* the broker connection failed at every attempt and the process exited
C23_WitnessConnectFails ==
    /\ mainpc = "exited"
    /\ exit_status = 1
    /\ Len(steps) = 5
    /\ ~steps[5].ok
    /\ conn_caller = "main"

=============================================================================
